---- MODULE Spec2Model ----
(***************************************************************************)
(* Diario: the entry storage and retrieval engine                          *)
(* (src/models/diary_entry.py: DiaryEntry and DiaryEntryManager).          *)
(*                                                                         *)
(* DiaryEntry objects are mutable Python objects: the manager's cache and  *)
(* the callers hold references to the same object.  The model therefore    *)
(* keeps a heap of entry objects (heap), addressed by the uuid drawn at    *)
(* their construction, and a cache mapping entry ids to heap addresses.    *)
(* The SqliteDict table is a function from keys to stored strings; the     *)
(* stored strings are terms that record how they were produced             *)
(* (json.dumps, AES-CBC under a key, base64), so that each decoding step   *)
(* succeeds or fails as the library call does.                             *)
(***************************************************************************)
EXTENDS Integers, Sequences, FiniteSets, TLC

\* ------------------------------------------------------------ bounds
\* uuid4() values drawn in one behaviour: 1..MaxUuid
MaxUuid == 2
\* calls made in one behaviour; datetime.now() is 0..MaxClock
MaxClock == 5
\* entries of a store that is read: 1..MaxStored
MaxStored == 2

\* ------------------------------------------------------------ values
\* Python None where a password is expected
NoPassword == "<None>"
\* bytes key: absent (self.key = None)
NoKey == <<>>
\* salt.bin does not exist
NoSalt == "<no file>"
\* values get_random_bytes(16) may return
Salts == {"s1", "s2"}
\* passwords a caller passes to DiaryEntryManager(password=...)
InitPasswords == {NoPassword, "p", "q"}
\* passwords a caller passes to change_password
NewPasswords == {NoPassword, "", "p", "q"}
\* the empty dict {}
EmptyDict == <<>>
\* get_entry/save_entry returning None, as a heap address / an id
Null == 0

\* Python truthiness of self.password (None and "" are falsy)
Truthy(pw) == pw # NoPassword /\ pw # ""

\* dict.get(k, default)
DictGet(d, k, default) == IF k \in DOMAIN d THEN d[k] ELSE default

\* datetime.isoformat() and datetime.fromisoformat()
isoformat(t) == <<"iso", t>>
fromisoformat(s) == s[2]

\* hashlib.pbkdf2_hmac('sha256', password, salt, 100000)[:32]: a
\* deterministic function of password and salt, taken to be injective
pbkdf2_hmac(pw, s) == <<pw, s>>

\* ------------------------------------------------------------ DiaryEntry
\* `x or []` for a list argument
OrEmptyList(x) == IF x = <<>> THEN <<>> ELSE x

\* `x or {}` for a dict argument
OrEmptyDict(x) == IF x = EmptyDict THEN EmptyDict ELSE x

\* DiaryEntry.__init__: uuid is the value of uuid.uuid4(), now the value of
\* datetime.datetime.now(); args holds the keyword arguments that are passed
DiaryEntry(uuid, args, now) ==
    [id         |-> uuid,
     title      |-> DictGet(args, "title", ""),
     content    |-> DictGet(args, "content", ""),
     mood       |-> DictGet(args, "mood", 3),
     tags       |-> OrEmptyList(DictGet(args, "tags", <<>>)),
     location   |-> OrEmptyDict(DictGet(args, "location", EmptyDict)),
     media      |-> OrEmptyList(DictGet(args, "media", <<>>)),
     created_at |-> DictGet(args, "created_at", now),
     updated_at |-> DictGet(args, "updated_at", now)]

\* DiaryEntry.to_dict
to_dict(e) ==
    [id         |-> e.id,
     title      |-> e.title,
     content    |-> e.content,
     mood       |-> e.mood,
     tags       |-> e.tags,
     location   |-> e.location,
     media      |-> e.media,
     created_at |-> isoformat(e.created_at),
     updated_at |-> isoformat(e.updated_at)]

\* from_dict as it would be if it did not read the tags from the dict
from_dict_no_tags(uuid, data, now) ==
    LET entry == DiaryEntry(uuid,
                            [title    |-> DictGet(data, "title", ""),
                             content  |-> DictGet(data, "content", ""),
                             mood     |-> DictGet(data, "mood", 3),
                             location |-> DictGet(data, "location", EmptyDict),
                             media    |-> DictGet(data, "media", <<>>)],
                            now)
    IN  [entry EXCEPT
           !.id = DictGet(data, "id", entry.id),
           !.created_at = IF "created_at" \in DOMAIN data
                          THEN fromisoformat(data["created_at"]) ELSE @,
           !.updated_at = IF "updated_at" \in DOMAIN data
                          THEN fromisoformat(data["updated_at"]) ELSE @]

\* DiaryEntry.from_dict: the object is constructed first (drawing uuid),
\* then id and the two timestamps are overwritten when the dict has them
from_dict(uuid, data, now) ==
    LET entry == DiaryEntry(uuid,
                            [title    |-> DictGet(data, "title", ""),
                             content  |-> DictGet(data, "content", ""),
                             mood     |-> DictGet(data, "mood", 3),
                             tags     |-> DictGet(data, "tags", <<>>),
                             location |-> DictGet(data, "location", EmptyDict),
                             media    |-> DictGet(data, "media", <<>>)],
                            now)
    IN  [entry EXCEPT
           !.id = DictGet(data, "id", entry.id),
           !.created_at = IF "created_at" \in DOMAIN data
                          THEN fromisoformat(data["created_at"]) ELSE @,
           !.updated_at = IF "updated_at" \in DOMAIN data
                          THEN fromisoformat(data["updated_at"]) ELSE @]

\* update as it would be if it tested the arguments for truth (`if title:`)
\* instead of `is not None`
update_if_truthy(e, args, now) ==
    [e EXCEPT
       !.title    = IF "title" \in DOMAIN args /\ args.title # ""
                    THEN args.title ELSE @,
       !.content  = IF "content" \in DOMAIN args /\ args.content # ""
                    THEN args.content ELSE @,
       !.mood     = IF "mood" \in DOMAIN args /\ args.mood # 0
                    THEN args.mood ELSE @,
       !.tags     = IF "tags" \in DOMAIN args /\ args.tags # <<>>
                    THEN args.tags ELSE @,
       !.location = IF "location" \in DOMAIN args /\ args.location # EmptyDict
                    THEN args.location ELSE @,
       !.media    = IF "media" \in DOMAIN args /\ args.media # <<>>
                    THEN args.media ELSE @,
       !.updated_at = now]

\* DiaryEntry.update: args holds the arguments that are not None
update(e, args, now) ==
    [e EXCEPT
       !.title    = DictGet(args, "title", @),
       !.content  = DictGet(args, "content", @),
       !.mood     = DictGet(args, "mood", @),
       !.tags     = DictGet(args, "tags", @),
       !.location = DictGet(args, "location", @),
       !.media    = DictGet(args, "media", @),
       !.updated_at = now]

\* `tag in self.tags`
HasTag(e, tag) == \E i \in 1..Len(e.tags) : e.tags[i] = tag

\* DiaryEntry.add_tag
add_tag(e, tag, now) ==
    IF ~HasTag(e, tag)
    THEN [e EXCEPT !.tags = Append(@, tag), !.updated_at = now]
    ELSE e

\* list.remove(x): removes the first occurrence
ListRemove(s, x) ==
    LET i == CHOOSE j \in 1..Len(s) :
                 s[j] = x /\ \A k \in 1..(j - 1) : s[k] # x
    IN  SubSeq(s, 1, i - 1) \o SubSeq(s, i + 1, Len(s))

\* DiaryEntry.remove_tag
remove_tag(e, tag, now) ==
    IF HasTag(e, tag)
    THEN [e EXCEPT !.tags = ListRemove(@, tag), !.updated_at = now]
    ELSE e

\* DiaryEntry.add_media: media_id is the value of uuid.uuid4()
add_media(e, media_id, media_type, data, description, now) ==
    [e EXCEPT
       !.media = Append(@, [id          |-> media_id,
                            type        |-> media_type,
                            data        |-> data,
                            description |-> description,
                            created_at  |-> isoformat(now)]),
       !.updated_at = now]

\* DiaryEntry.remove_media: deletes the first record with that id
remove_media(e, media_id, now) ==
    IF \E i \in 1..Len(e.media) : e.media[i].id = media_id
    THEN LET i == CHOOSE j \in 1..Len(e.media) :
                      e.media[j].id = media_id
                      /\ \A k \in 1..(j - 1) : e.media[k].id # media_id
         IN  [e EXCEPT
                !.media = SubSeq(@, 1, i - 1) \o SubSeq(@, i + 1, Len(@)),
                !.updated_at = now]
    ELSE e

\* ------------------------------------------------------------ codec
\* json.dumps(entry_dict): the JSON text of a dict
json_dumps(d) ==
    [fmt |-> "json", enc |-> "utf8", key |-> NoKey, dict |-> d]

\* base64.b64encode(bytes).decode('utf-8')
b64encode(bytes) ==
    [fmt |-> "b64", enc |-> bytes.enc, key |-> bytes.key, dict |-> bytes.dict]

\* base64.b64decode(data): the encoded bytes.  Given a JSON text instead of
\* a base64 string it discards the characters outside the base64 alphabet
\* and either raises binascii.Error (exc) or returns meaningless bytes;
\* which of the two depends on the number of alphabet characters in the
\* text, which the abstract field values do not determine: accepted says
\* which one happens
b64decode(data, accepted) ==
    IF data.fmt = "b64"
    THEN [exc |-> FALSE,
          val |-> [enc |-> data.enc, key |-> data.key, dict |-> data.dict]]
    ELSE [exc |-> ~accepted,
          val |-> [enc |-> "garbage", key |-> NoKey, dict |-> EmptyDict]]

\* json.loads(data) of a stored string: a base64 string is no JSON text
json_loads(data) ==
    IF data.fmt = "json"
    THEN [exc |-> FALSE, val |-> data.dict]
    ELSE [exc |-> TRUE, val |-> EmptyDict]

\* DiaryEntryManager._encrypt_data: bytes of the JSON text, AES-CBC
\* encrypted under self.key when a key is held (the random IV is prefixed
\* and has no effect on what decrypts)
encrypt_data(m, d) ==
    IF m.key = NoKey
    THEN [enc |-> "utf8", key |-> NoKey, dict |-> d]
    ELSE [enc |-> "aes", key |-> m.key, dict |-> d]

\* DiaryEntryManager._decrypt_data: every failure yields {}
decrypt_data(m, bytes) ==
    IF m.key = NoKey
    THEN IF bytes.enc = "utf8" THEN bytes.dict ELSE EmptyDict
    ELSE IF bytes.enc = "aes" /\ bytes.key = m.key
         THEN bytes.dict
         ELSE EmptyDict

\* ------------------------------------------------------------ manager
\* A manager state m is a record
\*   password, key : self.password, self.key
\*   cache         : self.entries_cache, entry id -> heap address
\*   db            : the 'entries' table of diary.sqlite, key -> string
\*   salt          : the content of salt.bin
\*   heap          : the DiaryEntry objects alive, address -> object
\*   next          : the next uuid4() value
\* The operators below return the manager state after the call and the
\* call's return value.

\* del d[k]
RemoveKey(f, k) == [x \in (DOMAIN f) \ {k} |-> f[x]]

\* d[k] = v
SetKey(f, k, v) == [x \in (DOMAIN f) \cup {k} |-> IF x = k THEN v ELSE f[x]]

\* _init_encryption as it would be if it generated a salt in every call
init_encryption_new_salt(m, s) ==
    IF m.password = NoPassword
    THEN [m |-> [m EXCEPT !.salt = s], exc |-> TRUE]
    ELSE [m |-> [m EXCEPT !.salt = s, !.key = pbkdf2_hmac(m.password, s)],
          exc |-> FALSE]

\* DiaryEntryManager._init_encryption: s is the value get_random_bytes
\* returns if a salt has to be generated; exc is the AttributeError of
\* None.encode() (raised after the salt file was written)
init_encryption(m, s) ==
    LET salt == IF m.salt = NoSalt THEN s ELSE m.salt
    IN  IF m.password = NoPassword
        THEN [m |-> [m EXCEPT !.salt = salt], exc |-> TRUE]
        ELSE [m |-> [m EXCEPT !.salt = salt,
                              !.key = pbkdf2_hmac(m.password, salt)],
              exc |-> FALSE]

\* the decoding part of get_entry (lines 374-379): exc when b64decode or
\* json.loads raises
DecodeStored(m, data, accepted) ==
    IF Truthy(m.password)
    THEN LET b == b64decode(data, accepted)
         IN  IF b.exc THEN [exc |-> TRUE, val |-> EmptyDict]
             ELSE [exc |-> FALSE, val |-> decrypt_data(m, b.val)]
    ELSE json_loads(data)

\* DiaryEntryManager.get_entry; ret is a heap address or Null.  ok64 is the
\* set of keys whose stored text b64decode accepts although it is JSON
get_entry(m, entry_id, now, ok64) ==
    IF entry_id \in DOMAIN m.cache
    THEN [m |-> m, ret |-> m.cache[entry_id]]
    ELSE IF entry_id \notin DOMAIN m.db
    THEN [m |-> m, ret |-> Null]
    ELSE LET entry_dict == DecodeStored(m, m.db[entry_id], entry_id \in ok64)
         IN  IF entry_dict.exc
             THEN [m |-> m, ret |-> Null]
             ELSE LET a == m.next
                      entry == from_dict(a, entry_dict.val, now)
                  IN  [m |-> [m EXCEPT !.heap = SetKey(@, a, entry),
                                       !.next = a + 1,
                                       !.cache = SetKey(@, entry_id, a)],
                       ret |-> a]

\* how a save_entry call ends: "ok"; "open" (SqliteDict(...) raises, before
\* anything is done); "write" (to_dict, json.dumps, the encryption or the
\* table write raises, after updated_at was set); "close" (leaving the
\* with block raises, after the table and the cache were written: the
\* exception replaces the return value)
SaveOutcomes == {"ok", "open", "write", "close"}

\* DiaryEntryManager.save_entry of the object at address a; ret is the
\* entry id or Null
save_entry(m, a, now, outcome) ==
    IF outcome = "open"
    THEN [m |-> m, ret |-> Null]
    ELSE LET entry == [m.heap[a] EXCEPT !.updated_at = now]
             m1 == [m EXCEPT !.heap = SetKey(@, a, entry)]
             entry_dict == to_dict(entry)
             data == IF Truthy(m.password)
                     THEN b64encode(encrypt_data(m, entry_dict))
                     ELSE json_dumps(entry_dict)
             m2 == [m1 EXCEPT !.db = SetKey(@, entry.id, data),
                              !.cache = SetKey(@, entry.id, a)]
         IN  IF outcome = "write"
             THEN [m |-> m1, ret |-> Null]
             ELSE IF outcome = "close"
             THEN [m |-> m2, ret |-> Null]
             ELSE [m |-> m2, ret |-> entry.id]

\* how a delete_entry call ends: "ok"; "error" (a SqliteDict call raises
\* before the key is deleted); "close" (leaving the with block raises,
\* after the key was deleted: the exception replaces the return value)
DeleteOutcomes == {"ok", "error", "close"}

\* delete_entry as it would be if `return True` were reached for a key the
\* table does not hold
delete_entry_true_when_absent(m, entry_id, outcome) ==
    IF outcome = "error"
    THEN [m |-> m, ret |-> FALSE]
    ELSE IF entry_id \in DOMAIN m.db
    THEN [m |-> [m EXCEPT !.db = RemoveKey(@, entry_id),
                          !.cache = RemoveKey(@, entry_id)],
          ret |-> outcome = "ok"]
    ELSE [m |-> m, ret |-> outcome = "ok"]

\* DiaryEntryManager.delete_entry; ret is the bool returned
delete_entry(m, entry_id, outcome) ==
    IF outcome = "error"
    THEN [m |-> m, ret |-> FALSE]
    ELSE IF entry_id \in DOMAIN m.db
    THEN [m |-> [m EXCEPT !.db = RemoveKey(@, entry_id),
                          !.cache = RemoveKey(@, entry_id)],
          ret |-> outcome = "ok"]
    ELSE [m |-> m, ret |-> FALSE]

\* the keys of the table in the order `for entry_id in db` yields them
RECURSIVE DbKeys(_)
DbKeys(ks) ==
    IF ks = {} THEN <<>>
    ELSE LET k == CHOOSE x \in ks : \A y \in ks : x <= y
         IN  <<k>> \o DbKeys(ks \ {k})

\* entries.sort(key=lambda x: x.created_at, reverse=True): a stable sort,
\* entries with equal created_at keep their order
RECURSIVE SortByCreatedDesc(_, _)
SortByCreatedDesc(h, as) ==
    IF as = <<>> THEN <<>>
    ELSE LET rest == SortByCreatedDesc(h, SubSeq(as, 1, Len(as) - 1))
             x == as[Len(as)]
             n == Cardinality({i \in 1..Len(rest) :
                     h[rest[i]].created_at >= h[x].created_at})
         IN  SubSeq(rest, 1, n) \o <<x>> \o SubSeq(rest, n + 1, Len(rest))

\* the loop of get_all_entries over the keys ks: get_entry for each key,
\* the entries found appended to acc
RECURSIVE GetEach(_, _, _, _, _)
GetEach(m, ks, acc, now, ok64) ==
    IF ks = <<>> THEN [m |-> m, ret |-> acc]
    ELSE LET r == get_entry(m, Head(ks), now, ok64)
         IN  GetEach(r.m, Tail(ks),
                     IF r.ret # Null THEN Append(acc, r.ret) ELSE acc,
                     now, ok64)

\* DiaryEntryManager.get_all_entries; ret is a sequence of heap addresses
get_all_entries(m, now, ok64) ==
    LET r == GetEach(m, DbKeys(DOMAIN m.db), <<>>, now, ok64)
    IN  [m |-> r.m, ret |-> SortByCreatedDesc(r.m.heap, r.ret)]

\* the loop of change_password over all_entries: save_entry for each;
\* fails is the set of addresses whose save ends with a write error
RECURSIVE SaveEach(_, _, _, _)
SaveEach(m, as, now, fails) ==
    IF as = <<>> THEN m
    ELSE SaveEach(save_entry(m, Head(as), now,
                             IF Head(as) \in fails THEN "write" ELSE "ok").m,
                  Tail(as), now, fails)

\* DiaryEntryManager.change_password; ret is the bool returned
change_password(m, new_password, now, s, fails, ok64) ==
    LET all == get_all_entries(m, now, ok64)
        old_password == m.password
        init == init_encryption([all.m EXCEPT !.password = new_password], s)
    IN  IF init.exc
        THEN LET m1 == [init.m EXCEPT !.password = old_password]
             IN  [m |-> IF Truthy(old_password)
                        THEN init_encryption(m1, s).m ELSE m1,
                  ret |-> FALSE]
        ELSE [m |-> SaveEach(init.m, all.ret, now, fails),
              ret |-> TRUE]

\* DiaryEntryManager.__init__: a new manager over the same data directory;
\* the objects of the previous manager are gone, uuids are not reused
manager_init(m, pw, s) ==
    LET m0 == [m EXCEPT !.password = pw, !.key = NoKey,
                        !.cache = <<>>, !.heap = <<>>]
    IN  IF Truthy(pw) THEN init_encryption(m0, s).m ELSE m0

\* ------------------------------------------------------------ queries
\* Texts that are searched are sequences of characters, so that lower()
\* and `in` are computed as Python computes them.

\* str.lower() on one character, for the letters the texts below use
LowerChar(c) ==
    CASE c = "A" -> "a"
      [] c = "E" -> "e"
      [] c = "S" -> "s"
      [] c = "T" -> "t"
      [] OTHER -> c

\* str.lower()
str_lower(s) == [i \in 1..Len(s) |-> LowerChar(s[i])]

\* `q in s` for strings: q is a substring of s
StrIn(q, s) ==
    \E i \in 0..(Len(s) - Len(q)) : SubSeq(s, i + 1, i + Len(q)) = q

\* `x in l` as it would be if only the first element were compared
ListIn_first_only(x, l) == l # <<>> /\ l[1] = x

\* `x in l` for a list l
ListIn(x, l) == \E i \in 1..Len(l) : l[i] = x

\* the body of the loop of search_entries with the tag test requiring
\* every requested tag instead of any
SearchSkips_all_tags(e, f) ==
    \/ /\ "query" \in DOMAIN f /\ f.query # <<>>
       /\ ~(\/ StrIn(str_lower(f.query), str_lower(e.title))
            \/ StrIn(str_lower(f.query), str_lower(e.content)))
    \/ /\ "tags" \in DOMAIN f /\ f.tags # <<>>
       /\ ~(\A i \in 1..Len(f.tags) : ListIn(f.tags[i], e.tags))
    \/ "date_from" \in DOMAIN f /\ e.created_at < f.date_from
    \/ "date_to" \in DOMAIN f /\ e.created_at > f.date_to
    \/ "mood" \in DOMAIN f /\ e.mood # f.mood

\* the body of the loop of search_entries (lines 457-476): whether one of
\* the `continue` statements is reached for entry e.  f holds the
\* arguments that are not None; an empty query and an empty tag list are
\* falsy, a datetime never is
SearchSkips(e, f) ==
    \/ /\ "query" \in DOMAIN f /\ f.query # <<>>
       /\ ~(\/ StrIn(str_lower(f.query), str_lower(e.title))
            \/ StrIn(str_lower(f.query), str_lower(e.content)))
    \/ /\ "tags" \in DOMAIN f /\ f.tags # <<>>
       /\ ~(\E i \in 1..Len(f.tags) : ListIn(f.tags[i], e.tags))
    \/ "date_from" \in DOMAIN f /\ e.created_at < f.date_from
    \/ "date_to" \in DOMAIN f /\ e.created_at > f.date_to
    \/ "mood" \in DOMAIN f /\ e.mood # f.mood

\* the elements a of the sequence as for which keep[a] holds, in order
RECURSIVE KeepSeq(_, _)
KeepSeq(as, keep) ==
    IF as = <<>> THEN <<>>
    ELSE (IF Head(as) \in keep THEN <<Head(as)>> ELSE <<>>)
         \o KeepSeq(Tail(as), keep)

\* search_entries as it would be if it filtered the entries in the order
\* of the table instead of the sorted list of get_all_entries
search_entries_table_order(m, f, now, ok64) ==
    LET all == GetEach(m, DbKeys(DOMAIN m.db), <<>>, now, ok64)
        kept == {a \in DOMAIN all.m.heap : ~SearchSkips(all.m.heap[a], f)}
    IN  [m |-> all.m, ret |-> KeepSeq(all.ret, kept)]

\* DiaryEntryManager.search_entries; ret is a sequence of heap addresses
search_entries(m, f, now, ok64) ==
    LET all == get_all_entries(m, now, ok64)
        kept == {a \in DOMAIN all.m.heap : ~SearchSkips(all.m.heap[a], f)}
    IN  [m |-> all.m, ret |-> KeepSeq(all.ret, kept)]

\* The instants of the stores that are read by date are days, counted
\* from 1 December 2023: the months from then on and their lengths
Months ==
    <<[year |-> 2023, month |-> 12, days |-> 31],
      [year |-> 2024, month |-> 1,  days |-> 31],
      [year |-> 2024, month |-> 2,  days |-> 29],
      [year |-> 2024, month |-> 3,  days |-> 31]>>

\* the calendar date of day t, looked for from the i-th month on
RECURSIVE DateFrom(_, _)
DateFrom(t, i) ==
    IF i = Len(Months) \/ t < Months[i].days
    THEN [year |-> Months[i].year, month |-> Months[i].month, day |-> t + 1]
    ELSE DateFrom(t - Months[i].days, i + 1)

\* datetime.year, datetime.month, datetime.day
year(t) == DateFrom(t, 1).year
month(t) == DateFrom(t, 1).month
day(t) == DateFrom(t, 1).day

\* the body of the loop of get_entries_by_date with the day compared only
\* when a month is given
DateSkips_day_needs_month(e, f) ==
    \/ year(e.created_at) # f.year
    \/ "month" \in DOMAIN f /\ month(e.created_at) # f.month
    \/ /\ "month" \in DOMAIN f /\ "day" \in DOMAIN f
       /\ day(e.created_at) # f.day

\* the body of the loop of get_entries_by_date (lines 499-506): whether
\* one of the `continue` statements is reached for entry e.  f holds year,
\* and month and day when they are not None
DateSkips(e, f) ==
    \/ year(e.created_at) # f.year
    \/ "month" \in DOMAIN f /\ month(e.created_at) # f.month
    \/ "day" \in DOMAIN f /\ day(e.created_at) # f.day

\* DiaryEntryManager.get_entries_by_date; ret is a sequence of heap
\* addresses
get_entries_by_date(m, f, now, ok64) ==
    LET all == get_all_entries(m, now, ok64)
        kept == {a \in DOMAIN all.m.heap : ~DateSkips(all.m.heap[a], f)}
    IN  [m |-> all.m, ret |-> KeepSeq(all.ret, kept)]

\* the five keys of mood_stats (line 552)
MoodKeys == 1..5

\* DiaryEntryManager.get_mood_stats; f holds date_from and date_to when
\* they are given; ret maps each key of mood_stats to its count
get_mood_stats(m, f, now, ok64) ==
    LET all == get_all_entries(m, now, ok64)
        h == all.m.heap
        kept == {a \in DOMAIN h :
                    /\ ~("date_from" \in DOMAIN f
                         /\ h[a].created_at < f.date_from)
                    /\ ~("date_to" \in DOMAIN f
                         /\ h[a].created_at > f.date_to)}
        entries == KeepSeq(all.ret, kept)
    IN  [m |-> all.m,
         ret |-> [k \in MoodKeys |->
                    Cardinality({i \in 1..Len(entries) :
                                    h[entries[i]].mood = k})],
         considered |-> entries]

\* ------------------------------------------------------------ state
VARIABLES
    password,       \* self.password
    key,            \* self.key
    entries_cache,  \* self.entries_cache: entry id -> heap address
    db,             \* table 'entries' of diary.sqlite: key -> stored string
    salt_file,      \* content of salt.bin
    heap,           \* the DiaryEntry objects alive: address -> object
    nextUuid,       \* the next value of uuid.uuid4()
    clock,          \* the value of datetime.datetime.now()
    last,           \* the last manager call: name, argument and outcome
    deleted,        \* the ids delete_entry has removed, until saved again
    pc,             \* where each event handler running in a thread stands
    frame           \* the local variables of each such handler

vars == <<password, key, entries_cache, db, salt_file, heap, nextUuid, clock,
          last, deleted, pc, frame>>

\* the manager state, as the operators above take it
Mgr ==
    [password |-> password, key |-> key, cache |-> entries_cache, db |-> db,
     salt |-> salt_file, heap |-> heap, next |-> nextUuid]

\* the variables after a call that leaves the manager in state m
SetMgr(m) ==
    /\ password' = m.password
    /\ key' = m.key
    /\ entries_cache' = m.cache
    /\ db' = m.db
    /\ salt_file' = m.salt
    /\ heap' = m.heap
    /\ nextUuid' = m.next

\* the record of a manager call: op its name, id the entry id it was given
\* (for save_entry the id of the object given and ref its address), ok
\* whether it returned a truthy value, fault whether a storage call raised
\* in it
Call(op, id, ref, ok, fault) ==
    [op |-> op, id |-> id, ref |-> ref, ok |-> ok, fault |-> fault]

\* no manager call was the last thing done
NoCall == Call("none", Null, Null, TRUE, FALSE)

\* the ids of the objects at the addresses as
IdsOf(h, as) == {h[a].id : a \in as}

\* keyword arguments of DiaryEntry(...) as a caller passes them
NewArgs ==
    {[title |-> "Trip", content |-> "sea", mood |-> 4, tags |-> <<"x">>,
      location |-> [name |-> "Kyoto"],
      media |-> <<[id |-> 0, type |-> "image", data |-> "blob",
                   description |-> "", created_at |-> isoformat(0)]>>]}

\* arguments of DiaryEntry.update as a caller passes them
\* (HomeView._on_mood_selected)
UpdateArgs == {[mood |-> 5]}

\* the keys of JSON texts in the table: the keys for which it matters
\* whether b64decode accepts the text
JsonKeys(m) ==
    IF Truthy(m.password)
    THEN {k \in DOMAIN m.db : m.db[k].fmt = "json"} \ DOMAIN m.cache
    ELSE {}

\* every call is made at a later instant of datetime.now() than the one
\* before it; a behaviour makes at most MaxClock calls
Advance == clock < MaxClock /\ clock' = clock + 1

\* the event handlers that run in threads of their own: the mood buttons
\* of the home view and the save button of the editor view
Contexts == {"home", "editor"}

\* a stored string not yet computed
NoData == [fmt |-> "none", enc |-> "", key |-> NoKey, dict |-> EmptyDict]

\* the locals of a handler that has not started: entry is the address of
\* the DiaryEntry it works on, data the string save_entry has computed
NoFrame == [entry |-> Null, data |-> NoData]

\* DiaryEntryManager() in main.py on a fresh installation: no password, no
\* key, an empty cache, an empty table, no salt file; no handler runs
Init ==
    /\ password = NoPassword
    /\ key = NoKey
    /\ entries_cache = <<>>
    /\ db = <<>>
    /\ salt_file = NoSalt
    /\ heap = <<>>
    /\ nextUuid = 1
    /\ clock = 0
    /\ last = NoCall
    /\ deleted = {}
    /\ pc = [c \in Contexts |-> "idle"]
    /\ frame = [c \in Contexts |-> NoFrame]

\* a caller constructs DiaryEntry(**args)
NewEntry ==
    \E args \in NewArgs :
        /\ nextUuid <= MaxUuid
        /\ heap' = SetKey(heap, nextUuid, DiaryEntry(nextUuid, args, clock))
        /\ nextUuid' = nextUuid + 1
        /\ last' = NoCall
        /\ Advance
        /\ UNCHANGED <<pc, frame>>
        /\ UNCHANGED <<password, key, entries_cache, db, salt_file, deleted>>

\* a caller holding the object at address a calls a.update(**args)
Update ==
    \E a \in DOMAIN heap, args \in UpdateArgs :
        /\ heap' = [heap EXCEPT ![a] = update(@, args, clock)]
        /\ last' = NoCall
        /\ Advance
        /\ UNCHANGED <<pc, frame>>
        /\ UNCHANGED <<password, key, entries_cache, db, salt_file, nextUuid,
                       deleted>>

\* manager.save_entry(a)
SaveEntry ==
    \E a \in DOMAIN heap, outcome \in SaveOutcomes :
        LET r == save_entry(Mgr, a, clock, outcome)
        IN  /\ SetMgr(r.m)
            /\ last' = Call("save_entry", heap[a].id, a, r.ret # Null,
                            outcome # "ok")
            /\ deleted' = IF heap[a].id \in DOMAIN r.m.db
                                /\ outcome \in {"ok", "close"}
                           THEN deleted \ {heap[a].id} ELSE deleted
            /\ Advance
            /\ UNCHANGED <<pc, frame>>

\* manager.get_entry(entry_id)
GetEntry ==
    \E entry_id \in 1..MaxUuid, ok64 \in SUBSET JsonKeys(Mgr) :
        LET r == get_entry(Mgr, entry_id, clock, ok64)
        IN  /\ r.m.next <= MaxUuid + 1
            /\ SetMgr(r.m)
            /\ last' = Call("get_entry", entry_id, Null, r.ret # Null, FALSE)
            /\ Advance
            /\ UNCHANGED <<pc, frame>>
            /\ UNCHANGED deleted

\* manager.delete_entry(entry_id)
DeleteEntry ==
    \E entry_id \in 1..MaxUuid, outcome \in DeleteOutcomes :
        LET r == delete_entry(Mgr, entry_id, outcome)
        IN  /\ SetMgr(r.m)
            /\ last' = Call("delete_entry", entry_id, Null, r.ret,
                            outcome # "ok")
            /\ deleted' = IF r.ret THEN deleted \cup {entry_id} ELSE deleted
            /\ Advance
            /\ UNCHANGED <<pc, frame>>

\* manager.get_all_entries()
GetAllEntries ==
    \E ok64 \in SUBSET JsonKeys(Mgr) :
        LET r == get_all_entries(Mgr, clock, ok64)
        IN  /\ r.m.next <= MaxUuid + 1
            /\ SetMgr(r.m)
            /\ last' = NoCall
            /\ Advance
            /\ UNCHANGED <<pc, frame>>
            /\ UNCHANGED deleted

\* manager.change_password(new_password)
ChangePassword ==
    \E new_password \in NewPasswords, s \in Salts,
       ok64 \in SUBSET JsonKeys(Mgr) :
        LET all == get_all_entries(Mgr, clock, ok64)
        IN  \E fails \in SUBSET {all.ret[i] : i \in 1..Len(all.ret)} :
              LET r == change_password(Mgr, new_password, clock, s, fails,
                                       ok64)
              IN  /\ r.m.next <= MaxUuid + 1
                  /\ salt_file = NoSalt \/ s = salt_file
                  /\ new_password = NoPassword => fails = {}
                  /\ SetMgr(r.m)
                  /\ last' = Call("change_password", Null, Null, r.ret,
                                  fails # {})
                  /\ deleted' =
                       IF r.ret
                       THEN deleted \ IdsOf(r.m.heap,
                              {all.ret[i] : i \in 1..Len(all.ret)} \ fails)
                       ELSE deleted
                  /\ Advance
                  /\ UNCHANGED <<pc, frame>>

\* the application is started again: DiaryEntryManager(password=pw)
ManagerInit ==
    \E pw \in InitPasswords, s \in Salts :
        /\ salt_file = NoSalt \/ s = salt_file
        /\ SetMgr(manager_init(Mgr, pw, s))
        /\ last' = NoCall
        /\ Advance
        /\ UNCHANGED <<pc, frame>>
        /\ UNCHANGED deleted

Next ==
    \/ NewEntry
    \/ Update
    \/ SaveEntry
    \/ GetEntry
    \/ DeleteEntry
    \/ GetAllEntries
    \/ ChangePassword
    \/ ManagerInit

Spec == Init /\ [][Next]_vars

\* ------------------------------------------------------------ threads
\* Two event handlers work on the entry stored under EntryId, each in a
\* thread of its own: HomeView._on_mood_selected and, in the editor view,
\* _load_entry followed by _on_save_click.  The manager takes no lock, so
\* the threads may be switched between any two of the steps below.

\* the id of the entry both handlers work on
EntryId == 1

\* the keyword arguments each handler passes to DiaryEntry.update
HandlerArgs(c) ==
    IF c = "home"
    THEN [mood |-> 5]
    ELSE [title |-> "Home", content |-> "tea", mood |-> 2,
          tags |-> <<"x", "y">>]

\* the manager after an entry was created and saved without a password
SavedOnce ==
    LET args == CHOOSE a \in NewArgs : TRUE
        m0 == [password |-> NoPassword, key |-> NoKey, cache |-> <<>>,
               db |-> <<>>, salt |-> NoSalt,
               heap |-> SetKey(<<>>, EntryId, DiaryEntry(EntryId, args, 0)),
               next |-> EntryId + 1]
    IN  save_entry(m0, EntryId, 0, "ok").m

\* the application with one stored entry, either still running after the
\* save (the entry is cached) or started again (the cache is empty); both
\* handlers are about to run
InitConc ==
    /\ \E m \in {SavedOnce, manager_init(SavedOnce, NoPassword, "s1")} :
         /\ password = m.password
         /\ key = m.key
         /\ entries_cache = m.cache
         /\ db = m.db
         /\ salt_file = m.salt
         /\ heap = m.heap
         /\ nextUuid = m.next
    /\ clock = 1
    /\ last = NoCall
    /\ deleted = {}
    /\ pc = [c \in Contexts |-> "lookup"]
    /\ frame = [c \in Contexts |-> NoFrame]

\* get_entry, lines 363-364: the cache is looked up; on a hit the cached
\* object is returned
CtxLookup ==
    \E c \in Contexts :
        /\ pc[c] = "lookup"
        /\ IF EntryId \in DOMAIN entries_cache
           THEN /\ frame' = [frame EXCEPT ![c].entry = entries_cache[EntryId]]
                /\ pc' = [pc EXCEPT ![c] = "update"]
           ELSE /\ frame' = frame
                /\ pc' = [pc EXCEPT ![c] = "load"]
        /\ UNCHANGED <<password, key, entries_cache, db, salt_file, heap,
                       nextUuid, clock, last, deleted>>

\* get_entry, lines 366-387, after a miss: the record is read and decoded,
\* a new object is made of it, put in the cache and returned
CtxLoad ==
    \E c \in Contexts :
        /\ pc[c] = "load"
        /\ LET r == get_entry([Mgr EXCEPT !.cache = RemoveKey(@, EntryId)],
                              EntryId, clock, {})
           IN  /\ heap' = r.m.heap
               /\ nextUuid' = r.m.next
               /\ entries_cache' = SetKey(entries_cache, EntryId, r.ret)
               /\ frame' = [frame EXCEPT ![c].entry = r.ret]
        /\ pc' = [pc EXCEPT ![c] = "update"]
        /\ UNCHANGED <<password, key, db, salt_file, clock, last, deleted>>

\* entry.update(...) of the handler
CtxUpdate ==
    \E c \in Contexts :
        /\ pc[c] = "update"
        /\ heap' = [heap EXCEPT
                      ![frame[c].entry] = update(@, HandlerArgs(c), clock)]
        /\ clock' = clock + 1
        /\ pc' = [pc EXCEPT ![c] = "save"]
        /\ UNCHANGED <<password, key, entries_cache, db, salt_file, nextUuid,
                       last, deleted, frame>>

\* save_entry, lines 331-341 up to the table write: updated_at is set and
\* the string to store is computed from the object as it is now
CtxSaveSnapshot ==
    \E c \in Contexts :
        /\ pc[c] = "save"
        /\ LET a == frame[c].entry
               entry == [heap[a] EXCEPT !.updated_at = clock]
           IN  /\ heap' = [heap EXCEPT ![a] = entry]
               /\ frame' = [frame EXCEPT
                              ![c].data = json_dumps(to_dict(entry))]
        /\ clock' = clock + 1
        /\ pc' = [pc EXCEPT ![c] = "write"]
        /\ UNCHANGED <<password, key, entries_cache, db, salt_file, nextUuid,
                       last, deleted>>

\* save_entry, line 341: db[entry.id] = the string computed
CtxSaveWrite ==
    \E c \in Contexts :
        /\ pc[c] = "write"
        /\ db' = SetKey(db, heap[frame[c].entry].id, frame[c].data)
        /\ pc' = [pc EXCEPT ![c] = "cache"]
        /\ UNCHANGED <<password, key, entries_cache, salt_file, heap,
                       nextUuid, clock, last, deleted, frame>>

\* save_entry, line 344: self.entries_cache[entry.id] = entry
CtxSaveCache ==
    \E c \in Contexts :
        /\ pc[c] = "cache"
        /\ entries_cache' = SetKey(entries_cache, heap[frame[c].entry].id,
                                   frame[c].entry)
        /\ pc' = [pc EXCEPT ![c] = "done"]
        /\ UNCHANGED <<password, key, db, salt_file, heap, nextUuid, clock,
                       last, deleted, frame>>

NextConc ==
    \/ CtxLookup
    \/ CtxLoad
    \/ CtxUpdate
    \/ CtxSaveSnapshot
    \/ CtxSaveWrite
    \/ CtxSaveCache

SpecConc == InitConc /\ [][NextConc]_vars

\* ------------------------------------------------------------ reads
\* The read operations on stores of several different entries: a store is
\* written by one manager and then read by the same manager, by a new one
\* with the same password or by a new one with another password.

\* keyword arguments of DiaryEntry(...) for the entries of such a store
QueryEntries ==
    {[title |-> <<"S", "e", "a">>, content |-> <<>>, mood |-> 5,
      tags |-> <<"x", "x">>],
     [title |-> <<"T", "o", "t">>, content |-> <<"t", "E", "a">>,
      tags |-> <<"y", "x">>],
     [title |-> <<"T", "o", "t">>, mood |-> 7]}

\* the values of created_at of the entries of such a store
Instants == {0, 1}

\* datetime.now() when such a store is read: later than every created_at
ReadInstant == 2

\* the keyword arguments in ks of the call whose arguments are all
Supplied(all, ks) == [k \in ks |-> all[k]]

\* the arguments of search_entries that are not None; the last one is
\* search_entries(query="", tags=[])
SearchFilters ==
    {Supplied([query |-> <<"e", "A">>, tags |-> tags, date_from |-> 1,
               date_to |-> 1, mood |-> 5], ks) :
        tags \in {<<"x">>, <<"x", "z">>},
        ks \in {{}, {"query"}, {"tags"}, {"date_from"}, {"date_to"},
                {"mood"}, {"date_from", "date_to"},
                {"query", "tags", "mood"},
                {"query", "tags", "date_from", "date_to", "mood"}}}
    \cup {[query |-> <<>>, tags |-> <<>>]}

\* the arguments of get_mood_stats that are not None
StatsFilters ==
    {Supplied([date_from |-> 1, date_to |-> 0], ks) :
        ks \in SUBSET {"date_from", "date_to"}}

\* the manager after DiaryEntry(**es[i]) was constructed and saved for each
\* i, in this order
RECURSIVE SavedAll(_, _)
SavedAll(m, es) ==
    IF es = <<>> THEN m
    ELSE LET m0 == SavedAll(m, SubSeq(es, 1, Len(es) - 1))
             a == m0.next
             args == es[Len(es)]
             m1 == [m0 EXCEPT
                      !.heap = SetKey(@, a, DiaryEntry(a, args,
                                                       args.created_at)),
                      !.next = a + 1]
         IN  save_entry(m1, a, args.created_at, "ok").m

\* the record of a read: its name, its arguments, the set b64decode
\* accepted and what it returned
Read(op, args, ok64, ret) ==
    [op |-> op, args |-> args, ok64 |-> ok64, ret |-> ret]

\* a store of 1..MaxStored entries with created_at in Instants, written by
\* a manager with password pw; the reader is that manager, or a new manager
\* with the password rpw.  A behaviour is at most one get_entry followed by
\* one other read.
InitQuery ==
    /\ \E n \in 1..MaxStored, pw \in {NoPassword, "p"},
          reader \in {"same manager", "same password", "other password"} :
         \E es \in [1..n -> {e @@ [created_at |-> t] :
                               e \in QueryEntries, t \in Instants}] :
            LET w == SavedAll(manager_init(
                        [password |-> NoPassword, key |-> NoKey,
                         cache |-> <<>>, db |-> <<>>, salt |-> NoSalt,
                         heap |-> <<>>, next |-> 1], pw, "s1"), es)
                m == CASE reader = "same manager" -> w
                       [] reader = "same password" -> manager_init(w, pw, "s1")
                       [] OTHER -> manager_init(w, "q", "s1")
            IN  /\ password = m.password
                /\ key = m.key
                /\ entries_cache = m.cache
                /\ db = m.db
                /\ salt_file = m.salt
                /\ heap = m.heap
                /\ nextUuid = m.next
    /\ clock = ReadInstant
    /\ last = Read("none", <<>>, {}, <<>>)
    /\ deleted = {}
    /\ pc = [c \in Contexts |-> "idle"]
    /\ frame = [c \in Contexts |-> NoFrame]

\* manager.search_entries(**f)
QSearchEntries ==
    /\ last.op \in {"none", "get_entry"}
    /\ \E f \in SearchFilters, ok64 \in SUBSET JsonKeys(Mgr) :
           LET r == search_entries(Mgr, f, clock, ok64)
           IN  /\ SetMgr(r.m)
               /\ last' = Read("search_entries", f, ok64, r.ret)
               /\ UNCHANGED <<clock, deleted, pc, frame>>

\* manager.get_mood_stats(**f)
QGetMoodStats ==
    /\ last.op \in {"none", "get_entry"}
    /\ \E f \in StatsFilters, ok64 \in SUBSET JsonKeys(Mgr) :
           LET r == get_mood_stats(Mgr, f, clock, ok64)
           IN  /\ SetMgr(r.m)
               /\ last' = Read("get_mood_stats", f, ok64, r.ret)
               /\ UNCHANGED <<clock, deleted, pc, frame>>

\* manager.get_all_entries()
QGetAllEntries ==
    /\ last.op \in {"none", "get_entry"}
    /\ \E ok64 \in SUBSET JsonKeys(Mgr) :
           LET r == get_all_entries(Mgr, clock, ok64)
           IN  /\ SetMgr(r.m)
               /\ last' = Read("get_all_entries", <<>>, ok64, r.ret)
               /\ UNCHANGED <<clock, deleted, pc, frame>>

\* manager.get_entry(entry_id)
QGetEntry ==
    /\ last.op = "none"
    /\ \E entry_id \in DOMAIN db, ok64 \in SUBSET JsonKeys(Mgr) :
           LET r == get_entry(Mgr, entry_id, clock, ok64)
           IN  /\ SetMgr(r.m)
               /\ last' = Read("get_entry", entry_id, ok64, <<r.ret>>)
               /\ UNCHANGED <<clock, deleted, pc, frame>>

NextQuery ==
    \/ QSearchEntries
    \/ QGetMoodStats
    \/ QGetAllEntries
    \/ QGetEntry

SpecQuery == InitQuery /\ [][NextQuery]_vars

\* the six content fields of an entry
Fields(e) == <<e.title, e.content, e.mood, e.tags, e.location, e.media>>

\* ------------------------------------------------------------ readers
\* An event handler updates the stored entry (HomeView._on_mood_selected
\* or EditorView._on_save_click) while another thread reads it.
\* DiaryEntry.update assigns the fields one after the other, and the
\* reads return the object the cache holds, which is the object being
\* updated.

\* the threads: the handler that updates, and the reader
ReadContexts == {"writer", "reader"}

\* the fields DiaryEntry.update may assign, in the order of lines 123-134
UpdateOrder == <<"title", "content", "mood", "tags", "location", "media">>

\* the first field from index i on that args gives, "updated_at" if none
RECURSIVE NextAssigned(_, _)
NextAssigned(args, i) ==
    IF i > Len(UpdateOrder) THEN "updated_at"
    ELSE IF UpdateOrder[i] \in DOMAIN args THEN UpdateOrder[i]
    ELSE NextAssigned(args, i + 1)

\* the arguments of search_entries the reader passes
ReaderFilters == {Supplied([mood |-> 2], ks) : ks \in SUBSET {"mood"}}

\* the stored entry is cached (it was saved by this manager, or the
\* application was started again and the handler's view has read it); the
\* handler c is about to call update, the reader has read nothing
InitRead ==
    /\ \E c \in Contexts, restarted \in BOOLEAN :
         LET m == IF restarted
                  THEN get_entry(manager_init(SavedOnce, NoPassword, "s1"),
                                 EntryId, 1, {}).m
                  ELSE SavedOnce
         IN  /\ password = m.password
             /\ key = m.key
             /\ entries_cache = m.cache
             /\ db = m.db
             /\ salt_file = m.salt
             /\ heap = m.heap
             /\ nextUuid = m.next
             /\ frame = [writer |-> [entry |-> m.cache[EntryId],
                                     args |-> HandlerArgs(c)],
                         reader |-> [seen |-> <<>>]]
             /\ pc = [writer |-> NextAssigned(HandlerArgs(c), 1),
                      reader |-> "read"]
    /\ clock = 1
    /\ last = Read("none", <<>>, {}, <<>>)
    /\ deleted = {}

\* DiaryEntry.update, one of lines 123-134: self.<field> = <field>
WriterAssign ==
    \E i \in 1..Len(UpdateOrder) :
        /\ pc["writer"] = UpdateOrder[i]
        /\ heap' = [heap EXCEPT ![frame["writer"].entry][UpdateOrder[i]] =
                                   frame["writer"].args[UpdateOrder[i]]]
        /\ pc' = [pc EXCEPT
                    !["writer"] = NextAssigned(frame["writer"].args, i + 1)]
        /\ UNCHANGED <<password, key, entries_cache, db, salt_file, nextUuid,
                       clock, last, deleted, frame>>

\* DiaryEntry.update, line 136: self.updated_at = now()
WriterStamp ==
    /\ pc["writer"] = "updated_at"
    /\ heap' = [heap EXCEPT ![frame["writer"].entry].updated_at = clock]
    /\ clock' = clock + 1
    /\ pc' = [pc EXCEPT !["writer"] = "save"]
    /\ UNCHANGED <<password, key, entries_cache, db, salt_file, nextUuid,
                   last, deleted, frame>>

\* the handler's save_entry(entry)
WriterSave ==
    /\ pc["writer"] = "save"
    /\ SetMgr(save_entry(Mgr, frame["writer"].entry, clock, "ok").m)
    /\ clock' = clock + 1
    /\ pc' = [pc EXCEPT !["writer"] = "done"]
    /\ UNCHANGED <<last, deleted, frame>>

\* what the reader has after a read that returned the objects at the
\* addresses ret: the fields the objects have at that moment
Seen(h, ret) == [i \in 1..Len(ret) |-> Fields(h[ret[i]])]

\* the reader calls get_entry(EntryId)
ReaderGetEntry ==
    /\ pc["reader"] = "read"
    /\ LET r == get_entry(Mgr, EntryId, clock, {})
       IN  /\ SetMgr(r.m)
           /\ last' = Read("get_entry", EntryId, {}, <<r.ret>>)
           /\ frame' = [frame EXCEPT
                          !["reader"].seen = Seen(r.m.heap, <<r.ret>>)]
    /\ pc' = [pc EXCEPT !["reader"] = "done"]
    /\ UNCHANGED <<clock, deleted>>

\* the reader calls get_all_entries()
ReaderGetAllEntries ==
    /\ pc["reader"] = "read"
    /\ LET r == get_all_entries(Mgr, clock, {})
       IN  /\ SetMgr(r.m)
           /\ last' = Read("get_all_entries", <<>>, {}, r.ret)
           /\ frame' = [frame EXCEPT
                          !["reader"].seen = Seen(r.m.heap, r.ret)]
    /\ pc' = [pc EXCEPT !["reader"] = "done"]
    /\ UNCHANGED <<clock, deleted>>

\* the reader calls search_entries(**f)
ReaderSearchEntries ==
    /\ pc["reader"] = "read"
    /\ \E f \in ReaderFilters :
         LET r == search_entries(Mgr, f, clock, {})
         IN  /\ SetMgr(r.m)
             /\ last' = Read("search_entries", f, {}, r.ret)
             /\ frame' = [frame EXCEPT
                            !["reader"].seen = Seen(r.m.heap, r.ret)]
    /\ pc' = [pc EXCEPT !["reader"] = "done"]
    /\ UNCHANGED <<clock, deleted>>

NextRead ==
    \/ WriterAssign
    \/ WriterStamp
    \/ WriterSave
    \/ ReaderGetEntry
    \/ ReaderGetAllEntries
    \/ ReaderSearchEntries

SpecRead == InitRead /\ [][NextRead]_vars

\* ------------------------------------------------------------ rotation
\* SettingsView._on_password_change runs change_password(NewPassword) in
\* one thread while another handler saves a new entry or deletes a stored
\* one.  change_password is a sequence of calls (lines 571-583) and takes
\* no lock, so the other thread may run between any two of them.

\* the threads: the one in change_password, and the other handler
RotContexts == {"settings", "other"}

\* the password the rotation changes to
NewPassword == "q"

\* what the other handler does: save_entry of a new entry, or
\* delete_entry(EntryId)
OtherOps == {"save_entry", "delete_entry"}

\* a store of n entries saved by a manager with password pw, which has
\* them in its cache; a further entry is constructed and not yet saved
Stored(n, pw) ==
    LET args == CHOOSE a \in NewArgs : TRUE
        w == SavedAll(manager_init(
                 [password |-> NoPassword, key |-> NoKey, cache |-> <<>>,
                  db |-> <<>>, salt |-> NoSalt, heap |-> <<>>, next |-> 1],
                 pw, "s1"),
                 [i \in 1..n |-> args @@ [created_at |-> 0]])
    IN  [w EXCEPT !.heap = SetKey(@, w.next, DiaryEntry(w.next, args, 1)),
                  !.next = w.next + 1]

\* the application holds a store of 1..MaxStored entries, with or without
\* a password; change_password(NewPassword) and the other handler's call
\* are about to run
InitRot ==
    /\ \E n \in 1..MaxStored, pw \in {NoPassword, "p"}, op \in OtherOps :
         LET m == Stored(n, pw)
         IN  /\ password = m.password
             /\ key = m.key
             /\ entries_cache = m.cache
             /\ db = m.db
             /\ salt_file = m.salt
             /\ heap = m.heap
             /\ nextUuid = m.next
             /\ frame = [settings |-> [all_entries |-> <<>>,
                                       old_password |-> m.password],
                         other |-> [op |-> op, entry |-> m.next - 1,
                                    data |-> NoData]]
             /\ pc = [settings |-> "get_all_entries", other |-> op]
    /\ clock = 2
    /\ last = NoCall
    /\ deleted = {}

\* change_password, line 571: all_entries = self.get_all_entries()
RotGetAll ==
    /\ pc["settings"] = "get_all_entries"
    /\ LET r == get_all_entries(Mgr, clock, {})
       IN  /\ SetMgr(r.m)
           /\ frame' = [frame EXCEPT !["settings"].all_entries = r.ret]
    /\ pc' = [pc EXCEPT !["settings"] = "set_password"]
    /\ UNCHANGED <<clock, last, deleted>>

\* change_password, lines 574-575: self.password = new_password
RotSetPassword ==
    /\ pc["settings"] = "set_password"
    /\ password' = NewPassword
    /\ frame' = [frame EXCEPT !["settings"].old_password = password]
    /\ pc' = [pc EXCEPT !["settings"] = "init_encryption"]
    /\ UNCHANGED <<key, entries_cache, db, salt_file, heap, nextUuid, clock,
                   last, deleted>>

\* change_password, line 576: self._init_encryption()
RotInitEncryption ==
    /\ pc["settings"] = "init_encryption"
    /\ SetMgr(init_encryption(Mgr, "s1").m)
    /\ pc' = [pc EXCEPT !["settings"] = "save"]
    /\ UNCHANGED <<clock, last, deleted, frame>>

\* change_password, lines 579-580: self.save_entry(entry) for the next
\* entry of all_entries
RotSaveNext ==
    /\ pc["settings"] = "save"
    /\ frame["settings"].all_entries # <<>>
    /\ SetMgr(save_entry(Mgr, Head(frame["settings"].all_entries), clock,
                         "ok").m)
    /\ frame' = [frame EXCEPT !["settings"].all_entries = Tail(@)]
    /\ clock' = clock + 1
    /\ UNCHANGED <<last, deleted, pc>>

\* change_password, lines 582-583: the loop is over, return True
RotReturn ==
    /\ pc["settings"] = "save"
    /\ frame["settings"].all_entries = <<>>
    /\ pc' = [pc EXCEPT !["settings"] = "done"]
    /\ last' = Call("change_password", Null, Null, TRUE, FALSE)
    /\ UNCHANGED <<password, key, entries_cache, db, salt_file, heap,
                   nextUuid, clock, deleted, frame>>

\* the other handler's save_entry, lines 331-339 up to the table write:
\* updated_at is set and the string to store is computed with the password
\* and the key the manager holds now
OtherSaveEncode ==
    /\ pc["other"] = "save_entry"
    /\ LET a == frame["other"].entry
           entry == [heap[a] EXCEPT !.updated_at = clock]
       IN  /\ heap' = [heap EXCEPT ![a] = entry]
           /\ frame' = [frame EXCEPT !["other"].data =
                          IF Truthy(password)
                          THEN b64encode(encrypt_data(Mgr, to_dict(entry)))
                          ELSE json_dumps(to_dict(entry))]
    /\ clock' = clock + 1
    /\ pc' = [pc EXCEPT !["other"] = "write"]
    /\ UNCHANGED <<password, key, entries_cache, db, salt_file, nextUuid,
                   last, deleted>>

\* the other handler's save_entry, lines 339-347: the table and the cache
\* are written
OtherSaveWrite ==
    /\ pc["other"] = "write"
    /\ LET a == frame["other"].entry
       IN  /\ db' = SetKey(db, heap[a].id, frame["other"].data)
           /\ entries_cache' = SetKey(entries_cache, heap[a].id, a)
    /\ pc' = [pc EXCEPT !["other"] = "done"]
    /\ UNCHANGED <<password, key, salt_file, heap, nextUuid, clock, last,
                   deleted, frame>>

\* the other handler's delete_entry(EntryId)
OtherDelete ==
    /\ pc["other"] = "delete_entry"
    /\ LET r == delete_entry(Mgr, EntryId, "ok")
       IN  /\ SetMgr(r.m)
           /\ deleted' = IF r.ret THEN deleted \cup {EntryId} ELSE deleted
    /\ pc' = [pc EXCEPT !["other"] = "done"]
    /\ UNCHANGED <<clock, last, frame>>

NextRot ==
    \/ RotGetAll
    \/ RotSetPassword
    \/ RotInitEncryption
    \/ RotSaveNext
    \/ RotReturn
    \/ OtherSaveEncode
    \/ OtherSaveWrite
    \/ OtherDelete

SpecRot == InitRot /\ [][NextRot]_vars

\* ------------------------------------------------------------ sessions
\* Sessions of the application over one data directory: managers are
\* constructed with and without a password, passwords are changed and
\* entries are written and read.  get_random_bytes may return any salt in
\* every call of _init_encryption that reaches it.

\* the application is started: DiaryEntryManager(password=pw)
SessionStart ==
    \E pw \in InitPasswords, s \in Salts :
        /\ SetMgr(manager_init(Mgr, pw, s))
        /\ last' = Call("manager_init", Null, Null, TRUE, FALSE)
        /\ Advance
        /\ UNCHANGED <<deleted, pc, frame>>

\* manager.change_password(new_password), no storage call raising
SessionChangePassword ==
    \E new_password \in NewPasswords, s \in Salts,
       ok64 \in SUBSET JsonKeys(Mgr) :
        LET r == change_password(Mgr, new_password, clock, s, {}, ok64)
        IN  /\ r.m.next <= MaxUuid + 1
            /\ SetMgr(r.m)
            /\ last' = Call("change_password", Null, Null, r.ret, FALSE)
            /\ Advance
            /\ UNCHANGED <<deleted, pc, frame>>

\* EditorView._on_save_click for a new entry: DiaryEntry(**args) is
\* constructed and saved
SessionSaveNew ==
    \E args \in NewArgs :
        /\ nextUuid <= MaxUuid
        /\ LET a == nextUuid
               m1 == [Mgr EXCEPT
                        !.heap = SetKey(@, a, DiaryEntry(a, args, clock)),
                        !.next = a + 1]
               r == save_entry(m1, a, clock, "ok")
           IN  /\ SetMgr(r.m)
               /\ last' = Call("save_entry", a, a, r.ret # Null, FALSE)
        /\ Advance
        /\ UNCHANGED <<deleted, pc, frame>>

\* manager.get_entry(entry_id) for a stored entry
SessionGetEntry ==
    \E entry_id \in DOMAIN db, ok64 \in SUBSET JsonKeys(Mgr) :
        LET r == get_entry(Mgr, entry_id, clock, ok64)
        IN  /\ r.m.next <= MaxUuid + 1
            /\ SetMgr(r.m)
            /\ last' = Call("get_entry", entry_id, Null, r.ret # Null, FALSE)
            /\ Advance
            /\ UNCHANGED <<deleted, pc, frame>>

NextSession ==
    \/ SessionStart
    \/ SessionChangePassword
    \/ SessionSaveNew
    \/ SessionGetEntry

SpecSession == Init /\ [][NextSession]_vars

\* ------------------------------------------------------------ entries
\* The life of DiaryEntry objects: construction with the keyword arguments
\* a caller may pass, the mutating methods, save_entry, and loading from
\* the store by a new manager (from_dict).

\* keyword arguments of DiaryEntry(...): some or all of title, mood, tags,
\* created_at and updated_at, the tag list with or without a repeated tag,
\* created_at later and updated_at earlier than the construction
CtorArgs ==
    {Supplied([title |-> "Trip", mood |-> 4, tags |-> tags,
               created_at |-> 3, updated_at |-> 0], ks) :
        tags \in {<<"x">>, <<"x", "x">>},
        ks \in {{}, {"tags"}, {"title", "mood", "tags"}, {"created_at"},
                {"updated_at"}, {"created_at", "updated_at"},
                {"title", "mood", "tags", "created_at", "updated_at"}}}

\* the arguments of DiaryEntry.update that are not None: empty strings,
\* 0 and empty lists are among the values
EntryUpdateArgs ==
    {Supplied([title |-> "", content |-> "tea", mood |-> 0, tags |-> tags,
               location |-> EmptyDict, media |-> <<>>], ks) :
        tags \in {<<>>, <<"y", "y">>},
        ks \in {{}, {"title"}, {"content"}, {"mood"}, {"tags"}, {"location"},
                {"media"}, {"title", "content", "mood", "tags"}}}

\* the tags add_tag and remove_tag are called with
EntryTags == {"x", "y"}

\* the instant the first entry is constructed at
FirstInstant == 1

\* the record of a call on an entry: the method, the address of the
\* object, the arguments and the value returned
EntryCall(op, ref, args, ret) ==
    [op |-> op, ref |-> ref, args |-> args, ret |-> ret]

\* a manager without password on a fresh installation, no entry
\* constructed yet
InitEntry ==
    /\ password = NoPassword
    /\ key = NoKey
    /\ entries_cache = <<>>
    /\ db = <<>>
    /\ salt_file = NoSalt
    /\ heap = <<>>
    /\ nextUuid = 1
    /\ clock = FirstInstant
    /\ last = EntryCall("none", Null, <<>>, Null)
    /\ deleted = {}
    /\ pc = [c \in Contexts |-> "idle"]
    /\ frame = [c \in Contexts |-> NoFrame]

\* DiaryEntry(**args); a behaviour follows one entry
EntryNew ==
    \E args \in CtorArgs :
        /\ heap = <<>>
        /\ nextUuid <= MaxUuid
        /\ heap' = SetKey(heap, nextUuid, DiaryEntry(nextUuid, args, clock))
        /\ nextUuid' = nextUuid + 1
        /\ last' = EntryCall("__init__", nextUuid, args, Null)
        /\ Advance
        /\ UNCHANGED <<password, key, entries_cache, db, salt_file, deleted,
                       pc, frame>>

\* entry.update(**args)
EntryUpdate ==
    \E a \in DOMAIN heap, args \in EntryUpdateArgs :
        /\ heap' = [heap EXCEPT ![a] = update(@, args, clock)]
        /\ last' = EntryCall("update", a, args, a)
        /\ Advance
        /\ UNCHANGED <<password, key, entries_cache, db, salt_file, nextUuid,
                       deleted, pc, frame>>

\* entry.add_tag(tag)
EntryAddTag ==
    \E a \in DOMAIN heap, tag \in EntryTags :
        /\ heap' = [heap EXCEPT ![a] = add_tag(@, tag, clock)]
        /\ last' = EntryCall("add_tag", a, tag, ~HasTag(heap[a], tag))
        /\ Advance
        /\ UNCHANGED <<password, key, entries_cache, db, salt_file, nextUuid,
                       deleted, pc, frame>>

\* entry.remove_tag(tag)
EntryRemoveTag ==
    \E a \in DOMAIN heap, tag \in EntryTags :
        /\ heap' = [heap EXCEPT ![a] = remove_tag(@, tag, clock)]
        /\ last' = EntryCall("remove_tag", a, tag, HasTag(heap[a], tag))
        /\ Advance
        /\ UNCHANGED <<password, key, entries_cache, db, salt_file, nextUuid,
                       deleted, pc, frame>>

\* entry.add_media("image", "blob"): the media id is a uuid4() value
EntryAddMedia ==
    \E a \in DOMAIN heap :
        /\ nextUuid <= MaxUuid
        /\ heap' = [heap EXCEPT
                      ![a] = add_media(@, nextUuid, "image", "blob", "",
                                       clock)]
        /\ nextUuid' = nextUuid + 1
        /\ last' = EntryCall("add_media", a, nextUuid, nextUuid)
        /\ Advance
        /\ UNCHANGED <<password, key, entries_cache, db, salt_file, deleted,
                       pc, frame>>

\* entry.remove_media(media_id)
EntryRemoveMedia ==
    \E a \in DOMAIN heap, media_id \in 1..MaxUuid :
        /\ heap' = [heap EXCEPT ![a] = remove_media(@, media_id, clock)]
        /\ last' = EntryCall("remove_media", a, media_id,
                             \E i \in 1..Len(heap[a].media) :
                                 heap[a].media[i].id = media_id)
        /\ Advance
        /\ UNCHANGED <<password, key, entries_cache, db, salt_file, nextUuid,
                       deleted, pc, frame>>

\* manager.save_entry(entry), no storage call raising
EntrySave ==
    \E a \in DOMAIN heap :
        LET r == save_entry(Mgr, a, clock, "ok")
        IN  /\ SetMgr(r.m)
            /\ last' = EntryCall("save_entry", a, <<>>, r.ret)
            /\ Advance
            /\ UNCHANGED <<deleted, pc, frame>>

\* the application is started again and the entry stored under entry_id
\* is loaded: get_entry on an empty cache, DiaryEntry.from_dict
EntryLoad ==
    \E entry_id \in DOMAIN db :
        LET r == get_entry(manager_init(Mgr, NoPassword, "s1"), entry_id,
                           clock, {})
        IN  /\ r.m.next <= MaxUuid + 1
            /\ SetMgr(r.m)
            /\ last' = EntryCall("from_dict", r.ret, entry_id, r.ret)
            /\ Advance
            /\ UNCHANGED <<deleted, pc, frame>>

NextEntry ==
    \/ EntryNew
    \/ EntryUpdate
    \/ EntryAddTag
    \/ EntryRemoveTag
    \/ EntryAddMedia
    \/ EntryRemoveMedia
    \/ EntrySave
    \/ EntryLoad

SpecEntry == InitEntry /\ [][NextEntry]_vars

\* ------------------------------------------------------------ dates
\* get_entries_by_date on stores whose entries were created on several
\* days of several months of two years.

\* the values of created_at of the entries of such a store: 1 and 31
\* December 2023, 1 and 31 January 2024, 1 February 2024
Days == {0, 30, 31, 61, 62}

\* datetime.now() when such a store is read: 2 March 2024
ReadDay == 92

\* the arguments of get_entries_by_date: year, and month and day when
\* they are not None
DateFilters ==
    {Supplied([year |-> y, month |-> mo, day |-> d], ks) :
        y \in {2023, 2024}, mo \in {1, 12}, d \in {1, 31},
        ks \in {{"year"}, {"year", "month"}, {"year", "day"},
                {"year", "month", "day"}}}

\* a store of 1..MaxStored entries created on days of Days, written by a
\* manager without password; the reader is that manager, or a new manager
\* with or without a password
InitDate ==
    /\ \E n \in 1..MaxStored,
          reader \in {"same manager", "same password", "other password"} :
         \E ds \in [1..n -> Days] :
            LET args == CHOOSE a \in NewArgs : TRUE
                w == SavedAll(
                       [password |-> NoPassword, key |-> NoKey,
                        cache |-> <<>>, db |-> <<>>, salt |-> NoSalt,
                        heap |-> <<>>, next |-> 1],
                       [i \in 1..n |-> args @@ [created_at |-> ds[i]]])
                m == CASE reader = "same manager" -> w
                       [] reader = "same password" ->
                            manager_init(w, NoPassword, "s1")
                       [] OTHER -> manager_init(w, "q", "s1")
            IN  /\ password = m.password
                /\ key = m.key
                /\ entries_cache = m.cache
                /\ db = m.db
                /\ salt_file = m.salt
                /\ heap = m.heap
                /\ nextUuid = m.next
    /\ clock = ReadDay
    /\ last = Read("none", <<>>, {}, <<>>)
    /\ deleted = {}
    /\ pc = [c \in Contexts |-> "idle"]
    /\ frame = [c \in Contexts |-> NoFrame]

\* manager.get_all_entries(), as the home view calls it before the
\* calendar is opened
DGetAllEntries ==
    /\ last.op = "none"
    /\ \E ok64 \in SUBSET JsonKeys(Mgr) :
           LET r == get_all_entries(Mgr, clock, ok64)
           IN  /\ SetMgr(r.m)
               /\ last' = Read("get_all_entries", <<>>, ok64, r.ret)
               /\ UNCHANGED <<clock, deleted, pc, frame>>

\* manager.get_entries_by_date(**f)
DGetEntriesByDate ==
    /\ last.op \in {"none", "get_all_entries"}
    /\ \E f \in DateFilters, ok64 \in SUBSET JsonKeys(Mgr) :
           LET r == get_entries_by_date(Mgr, f, clock, ok64)
           IN  /\ SetMgr(r.m)
               /\ last' = Read("get_entries_by_date", f, ok64, r.ret)
               /\ UNCHANGED <<clock, deleted, pc, frame>>

NextDate ==
    \/ DGetAllEntries
    \/ DGetEntriesByDate

SpecDate == InitDate /\ [][NextDate]_vars

\* ------------------------------------------------------------ first password
\* SettingsView._on_password_change on a manager that has no password
\* (lines 501-509): the password is assigned and the key derived first,
\* then the entries are read with get_all_entries and saved again.

\* the else branch of SettingsView._on_password_change: s is the salt
\* get_random_bytes returns, ok64 the keys whose JSON text b64decode
\* accepts; ret is the value of success
set_first_password(m, new_password, now, s, ok64) ==
    LET init == init_encryption([m EXCEPT !.password = new_password], s)
        all == get_all_entries(init.m, now, ok64)
    IN  [m |-> SaveEach(all.m, all.ret, now, {}), ret |-> TRUE]

\* a store of 1..MaxStored entries saved without a password; the manager
\* is the one that saved them (they are cached) or the application was
\* started again (the cache is empty)
InitFirst ==
    /\ \E n \in 1..MaxStored, restarted \in BOOLEAN :
         LET w == Stored(n, NoPassword)
             m == IF restarted THEN manager_init(w, NoPassword, "s1") ELSE w
         IN  /\ password = m.password
             /\ key = m.key
             /\ entries_cache = m.cache
             /\ db = m.db
             /\ salt_file = m.salt
             /\ heap = m.heap
             /\ nextUuid = m.next
    /\ clock = FirstInstant
    /\ last = NoCall
    /\ deleted = {}
    /\ pc = [c \in Contexts |-> "idle"]
    /\ frame = [c \in Contexts |-> NoFrame]

\* a view reads an entry before the password is set: get_entry(entry_id)
FirstGetEntry ==
    \E entry_id \in DOMAIN db :
        /\ ~Truthy(password)
        /\ LET r == get_entry(Mgr, entry_id, clock, {})
           IN  /\ SetMgr(r.m)
               /\ last' = Call("get_entry", entry_id, Null, r.ret # Null,
                               FALSE)
        /\ Advance
        /\ UNCHANGED <<deleted, pc, frame>>

\* the settings screen sets the first password
FirstSetPassword ==
    \E new_password \in InitPasswords \ {NoPassword}, s \in Salts :
        /\ ~Truthy(password)
        /\ \E ok64 \in SUBSET JsonKeys([Mgr EXCEPT !.password = new_password]) :
             LET r == set_first_password(Mgr, new_password, clock, s, ok64)
             IN  /\ SetMgr(r.m)
                 /\ last' = Call("set_first_password", Null, Null, r.ret,
                                 FALSE)
        /\ Advance
        /\ UNCHANGED <<deleted, pc, frame>>

\* a view reads an entry after the password was set: get_entry(entry_id)
FirstReadBack ==
    \E entry_id \in DOMAIN db :
        /\ Truthy(password)
        /\ \E ok64 \in SUBSET JsonKeys(Mgr) :
             LET r == get_entry(Mgr, entry_id, clock, ok64)
             IN  /\ SetMgr(r.m)
                 /\ last' = Call("get_entry", entry_id, Null, r.ret # Null,
                                 FALSE)
        /\ Advance
        /\ UNCHANGED <<deleted, pc, frame>>

NextFirst ==
    \/ FirstGetEntry
    \/ FirstSetPassword
    \/ FirstReadBack

SpecFirst == InitFirst /\ [][NextFirst]_vars

\* ------------------------------------------------------------ claims
\* the manager state in the next state of a step
MgrNext ==
    [password |-> password', key |-> key', cache |-> entries_cache',
     db |-> db', salt |-> salt_file', heap |-> heap', next |-> nextUuid']

\* a new manager opened with the password the current one holds
SamePasswordManager(m) == manager_init(m, m.password, m.salt)

\* the stored string decodes to an entry's dict under the manager's
\* password and key
Readable(m, data) ==
    \A accepted \in BOOLEAN :
        LET d == DecodeStored(m, data, accepted)
        IN  ~d.exc /\ d.val # EmptyDict

\* the stored string is ciphertext under a key other than the manager's
WrongKey(m, data) ==
    data.fmt = "b64" /\ data.enc = "aes" /\ data.key # m.key

C2_WrongKeyReadsAbsent ==
    [][\A k \in DOMAIN db :
         (/\ last'.op = "get_entry" /\ last'.id = k
          /\ k \notin DOMAIN entries_cache
          /\ WrongKey(Mgr, db[k]))
         => ~last'.ok]_vars

\* C3 (as claimed): a change_password in which a re-save fails returns
\* False and leaves password and key as they were.
C3_RotationFailureRolledBack ==
    [][(last'.op = "change_password" /\ last'.fault)
       => (~last'.ok /\ password' = password /\ key' = key)]_vars

\* C4 (as claimed): after a change_password in which a re-save fails, on a
\* store whose records were all readable, every record is readable under
\* the original password and key.
C4_RotationAllOrNothing ==
    [][(/\ last'.op = "change_password" /\ last'.fault
        /\ \A k \in DOMAIN db : Readable(Mgr, db[k]))
       => \A k \in DOMAIN db' : Readable(Mgr, db'[k])]_vars

\* the store holds JSON texts only
AllPlaintext(table) == \A k \in DOMAIN table : table[k].fmt = "json"

\* C5 (as claimed): a change_password(new_password) with a non-empty
\* new_password, on a manager whose password is empty or None and a store
\* of JSON texts, during which no storage call raises, returns True,
\* replaces every record of the store by one that is no JSON text, and
\* leaves every entry readable with the fields get_entry gave before the
\* call, from the cache and from the store.
C5_EnableEncryption ==
    [][(/\ last'.op = "change_password"
        /\ ~last'.fault
        /\ ~Truthy(password)
        /\ Truthy(password')
        /\ AllPlaintext(db))
       => /\ last'.ok
          /\ \A k \in DOMAIN db :
               LET before == get_entry(Mgr, k, clock, {})
                   after == get_entry(MgrNext, k, clock', {})
                   again == get_entry(SamePasswordManager(MgrNext), k,
                                      clock', {})
               IN  /\ k \in DOMAIN db'
                   /\ json_loads(db'[k]).exc
                   /\ after.ret # Null
                   /\ Fields(after.m.heap[after.ret])
                        = Fields(before.m.heap[before.ret])
                   /\ again.ret # Null
                   /\ Fields(again.m.heap[again.ret])
                        = Fields(before.m.heap[before.ret])]_vars

\* C6 (as claimed): an id that delete_entry removed (returning True) and
\* that was not saved again is in neither the store nor the cache,
\* get_entry returns None for it and no entry of get_all_entries has it.
C6_DeleteComplete ==
    \A k \in deleted :
        /\ k \notin DOMAIN db
        /\ k \notin DOMAIN entries_cache
        /\ \A ok64 \in SUBSET DOMAIN db :
             /\ get_entry(Mgr, k, clock, ok64).ret = Null
             /\ LET all == get_all_entries(Mgr, clock, ok64)
                IN  \A i \in 1..Len(all.ret) : all.m.heap[all.ret[i]].id # k

C8_CacheCoherent ==
    \A k \in DOMAIN entries_cache :
        /\ k \in DOMAIN db
        /\ \A accepted \in BOOLEAN :
             LET d == DecodeStored(Mgr, db[k], accepted)
             IN  /\ ~d.exc
                 /\ Fields(from_dict(nextUuid, d.val, clock))
                      = Fields(heap[entries_cache[k]])

\* C9 (as claimed): after a get_entry that had to decode an unreadable
\* record, and after a save_entry that failed, the cache holds no entry
\* for the id.
C9_FailureEvicts ==
    [][\A k \in 1..MaxUuid :
         /\ (/\ last'.op = "get_entry" /\ last'.id = k
             /\ k \notin DOMAIN entries_cache
             /\ k \in DOMAIN db
             /\ ~Readable(Mgr, db[k]))
            => k \notin DOMAIN entries_cache'
         /\ (last'.op = "save_entry" /\ last'.id = k /\ ~last'.ok)
            => k \notin DOMAIN entries_cache']_vars

\* C10 (as claimed): when both handlers have finished, the stored record
\* is the one a serial execution of the two leaves: it has the title, the
\* content and the tags the editor's update set, and the mood one of the
\* two updates set.
C10_NoLostUpdate ==
    (\A c \in Contexts : pc[c] = "done") =>
        LET d == db[EntryId].dict
        IN  /\ d.title = HandlerArgs("editor").title
            /\ d.content = HandlerArgs("editor").content
            /\ d.tags = HandlerArgs("editor").tags
            /\ d.mood \in {HandlerArgs(c).mood : c \in Contexts}

\* the stored string decodes to an entry's dict under the manager's
\* password and key, b64decode accepting a JSON text or not
Decodes(m, data, accepted) ==
    LET d == DecodeStored(m, data, accepted)
    IN  ~d.exc /\ d.val # EmptyDict

\* the keys of the records the manager can decode
Decodable(m, ok64) ==
    {k \in DOMAIN m.db : Decodes(m, m.db[k], k \in ok64)}

\* no entry of the sequence is followed by one with a later created_at
SortedDesc(h, as) ==
    \A i, j \in 1..Len(as) :
        i < j => h[as[i]].created_at >= h[as[j]].created_at

\* C13 (as claimed): get_all_entries returns one entry for each record of
\* the store that can be decoded and no other entry, no entry followed by
\* one with a later created_at.
C13_GetAllExactSorted ==
    [][last'.op = "get_all_entries"
       => /\ \A k \in Decodable(Mgr, last'.ok64) :
               Cardinality({i \in 1..Len(last'.ret) :
                              heap'[last'.ret[i]].id = k}) = 1
          /\ Len(last'.ret) = Cardinality(Decodable(Mgr, last'.ok64))
          /\ SortedDesc(heap', last'.ret)]_vars

\* C14 (as claimed): every entry that get_all_entries or search_entries
\* returns is the entry of a record that decodes: none stands for a record
\* that does not; and get_all_entries returns every record that decodes.
C14_BulkReadsSkipUnreadable ==
    [][last'.op \in {"get_all_entries", "search_entries"}
       => /\ \A i \in 1..Len(last'.ret) :
               LET e == heap'[last'.ret[i]]
               IN  /\ e.id \in Decodable(Mgr, last'.ok64)
                   /\ Fields(e)
                        = Fields(from_dict(nextUuid,
                            DecodeStored(Mgr, db[e.id],
                                         e.id \in last'.ok64).val, clock))
          /\ last'.op = "get_all_entries"
               => \A k \in Decodable(Mgr, last'.ok64) :
                    \E i \in 1..Len(last'.ret) : heap'[last'.ret[i]].id = k]_vars

\* C15: search_entries without a filter returns what get_all_entries
\* returns for the same store and cache, in the same order.
C15_SearchNoFilterIsGetAll ==
    [][(last'.op = "search_entries" /\ DOMAIN last'.args = {})
       => last'.ret = get_all_entries(Mgr, clock, last'.ok64).ret]_vars

\* C15 witness: a search without a filter returned two entries, the one
\* stored second first because it was created later.
C15_Witness ==
    /\ last.op = "search_entries" /\ DOMAIN last.args = {}
    /\ Len(last.ret) = 2
    /\ heap[last.ret[1]].id = 2 /\ heap[last.ret[2]].id = 1
    /\ heap[last.ret[1]].created_at > heap[last.ret[2]].created_at

\* the characters c and d are the same letter, whatever their case
SameLetter(c, d) == LowerChar(c) = LowerChar(d)

\* q occurs in s, case ignored
OccursIn(q, s) ==
    \E i \in 0..(Len(s) - Len(q)) :
        \A j \in 1..Len(q) : SameLetter(q[j], s[i + j])

\* the entry e satisfies every filter of f; an empty query and an empty
\* tag list request nothing
Matches(e, f) ==
    /\ "query" \in DOMAIN f
         => OccursIn(f.query, e.title) \/ OccursIn(f.query, e.content)
    /\ ("tags" \in DOMAIN f /\ f.tags # <<>>)
         => \E i \in 1..Len(f.tags), j \in 1..Len(e.tags) :
               f.tags[i] = e.tags[j]
    /\ "date_from" \in DOMAIN f => f.date_from <= e.created_at
    /\ "date_to" \in DOMAIN f => e.created_at <= f.date_to
    /\ "mood" \in DOMAIN f => e.mood = f.mood

\* the subsequence of as of the elements at the indices in idx, from
\* index i on
RECURSIVE SubSeqAt(_, _, _)
SubSeqAt(as, idx, i) ==
    IF i > Len(as) THEN <<>>
    ELSE (IF i \in idx THEN <<as[i]>> ELSE <<>>) \o SubSeqAt(as, idx, i + 1)

\* C16: search_entries returns the subsequence of get_all_entries (for the
\* same store and cache) of the entries that satisfy every supplied
\* filter.
C16_SearchConjunctive ==
    [][last'.op = "search_entries"
       => \A all \in {get_all_entries(Mgr, clock, last'.ok64)} :
             last'.ret
               = SubSeqAt(all.ret,
                          {i \in 1..Len(all.ret) :
                             Matches(all.m.heap[all.ret[i]], last'.args)},
                          1)]_vars

\* C16 witness: a search with a query, a tag list of which the entries
\* hold one tag only, a mood and both date bounds kept one of two stored
\* entries.
C16_Witness ==
    /\ last.op = "search_entries"
    /\ DOMAIN last.args = {"query", "tags", "date_from", "date_to", "mood"}
    /\ last.args.tags = <<"x", "z">>
    /\ Cardinality(DOMAIN db) = 2
    /\ Len(last.ret) = 1

\* C17: search_entries(tags=[x]) returns the entries of the records of the
\* store that decode to a tag list containing x, each once, and no other
\* entry.
C17_SearchByTag ==
    [][(last'.op = "search_entries" /\ DOMAIN last'.args = {"tags"}
        /\ Len(last'.args.tags) = 1)
       => LET x == last'.args.tags[1]
              tagged == {k \in Decodable(Mgr, last'.ok64) :
                           \E i \in 1..Len(db[k].dict.tags) :
                               db[k].dict.tags[i] = x}
          IN  /\ {heap'[last'.ret[i]].id : i \in 1..Len(last'.ret)} = tagged
              /\ Len(last'.ret) = Cardinality(tagged)]_vars

\* C17 witness: a search for the tag x returned two entries, one that has
\* x twice and one that has x after another tag.
C17_Witness ==
    /\ last.op = "search_entries" /\ DOMAIN last.args = {"tags"}
    /\ last.args.tags = <<"x">>
    /\ Len(last.ret) = 2
    /\ \E i \in 1..2 : heap[last.ret[i]].tags = <<"x", "x">>
    /\ \E i \in 1..2 : heap[last.ret[i]].tags = <<"y", "x">>

\* the sum of the values of the function f over the set ks
RECURSIVE SumOver(_, _)
SumOver(f, ks) ==
    IF ks = {} THEN 0
    ELSE LET k == CHOOSE x \in ks : TRUE
         IN  f[k] + SumOver(f, ks \ {k})

\* C18 (as claimed): get_mood_stats returns the keys 1..5, and its values
\* sum to the number of entries of get_all_entries within the date bounds
\* given.
C18_MoodStatsSum ==
    [][last'.op = "get_mood_stats"
       => LET all == get_all_entries(Mgr, clock, last'.ok64)
              considered == {i \in 1..Len(all.ret) :
                               Matches(all.m.heap[all.ret[i]], last'.args)}
          IN  /\ DOMAIN last'.ret = 1..5
              /\ SumOver(last'.ret, 1..5) = Cardinality(considered)]_vars

\* C19 (as claimed): every entry that get_entry, get_all_entries or
\* search_entries returns has a mood in 1..5.
C19_MoodInRange ==
    [][last'.op \in {"get_entry", "get_all_entries", "search_entries"}
       => \A i \in 1..Len(last'.ret) :
             last'.ret[i] # Null => heap'[last'.ret[i]].mood \in 1..5]_vars

\* C20 (as claimed): after a change_password with an empty new password
\* that returned True and during which no storage call raised, the manager
\* holds no key, and every entry it had is stored as a JSON text that
\* get_entry reads back, also with an empty cache.
C20_DisableEncryption ==
    [][(/\ last'.op = "change_password" /\ last'.ok /\ ~last'.fault
        /\ ~Truthy(password'))
       => /\ key' = NoKey
          /\ \A k \in DOMAIN db :
               /\ k \in DOMAIN db'
               /\ ~json_loads(db'[k]).exc
               /\ get_entry(MgrNext, k, clock', {}).ret # Null
               /\ get_entry(SamePasswordManager(MgrNext), k, clock',
                            {}).ret # Null]_vars

\* C12 (as claimed): each entry a read returned while the handler updated
\* it was seen with the fields it had before the update or with the
\* fields it has after it.
C12_NoHalfAppliedRead ==
    \A i \in 1..Len(frame["reader"].seen) :
        LET before == SavedOnce.heap[EntryId]
            after == update(before, frame["writer"].args, clock)
        IN  frame["reader"].seen[i] \in {Fields(before), Fields(after)}

\* C11 (as claimed): when change_password has returned True and the other
\* handler's save_entry or delete_entry is over, every record of the store
\* is encrypted under the key the manager holds, the entry saved is
\* stored and the entry deleted is not.
C11_RotationExclusive ==
    (\A c \in RotContexts : pc[c] = "done") =>
        /\ \A k \in DOMAIN db :
             db[k].fmt = "b64" /\ db[k].enc = "aes" /\ db[k].key = key
        /\ frame["other"].op = "save_entry"
             => heap[frame["other"].entry].id \in DOMAIN db
        /\ frame["other"].op = "delete_entry" => EntryId \notin DOMAIN db

\* C21 (as claimed): in every state the manager holds a key if and only
\* if its password is non-empty (neither None nor "").
C21_KeyIffPassword == (key # NoKey) <=> Truthy(password)

\* C22: no step changes a salt file that exists; whenever the manager has
\* a non-empty password its key is the one derived from that password and
\* the stored salt, which is the key a new manager opened with that
\* password derives; and every encrypted record of the store decodes for
\* a new manager opened with the password it was saved under.
C22_SaltWrittenOnce ==
    [][/\ salt_file # NoSalt => salt_file' = salt_file
       /\ Truthy(password') =>
            /\ salt_file' # NoSalt
            /\ key' = pbkdf2_hmac(password', salt_file')
            /\ \A s \in Salts : SamePasswordManager(MgrNext).key = key'
                                /\ manager_init(MgrNext, password', s).key
                                     = key'
       /\ \A k \in DOMAIN db' :
            db'[k].enc = "aes" =>
              \A s \in Salts :
                 Decodes(manager_init(MgrNext, db'[k].key[1], s), db'[k],
                         FALSE)]_vars

\* C22 witness: the application was started with a password, the salt
\* file existing, and the store holds a record that was encrypted before
\* and that this manager reads.
C22_Witness ==
    /\ last.op = "manager_init"
    /\ Truthy(password)
    /\ salt_file # NoSalt
    /\ \E k \in DOMAIN db :
         /\ db[k].enc = "aes"
         /\ db[k].key = key
         /\ get_entry(Mgr, k, clock, {}).ret # Null

\* C23 (as claimed): a save_entry in which a storage call raised does not
\* return the id, and leaves the record stored under the entry's id and
\* the entry cached under it as they were before the call.
C23_SaveFailureLeavesState ==
    [][\A k \in 1..MaxUuid :
         (last'.op = "save_entry" /\ last'.id = k /\ last'.fault)
         => /\ ~last'.ok
            /\ (k \in DOMAIN db') = (k \in DOMAIN db)
            /\ k \in DOMAIN db => db'[k] = db[k]
            /\ (k \in DOMAIN entries_cache') = (k \in DOMAIN entries_cache)
            /\ k \in DOMAIN entries_cache =>
                 /\ entries_cache'[k] = entries_cache[k]
                 /\ heap'[entries_cache'[k]] = heap[entries_cache[k]]]_vars

\* C24 (as claimed): every entry has updated_at >= created_at, after its
\* construction, after every mutation, after save_entry and after loading.
C24_UpdatedNotBeforeCreated ==
    \A a \in DOMAIN heap : heap[a].updated_at >= heap[a].created_at

\* C25 (as claimed): no entry has a tag twice in its tag list.
C25_NoDuplicateTag ==
    \A a \in DOMAIN heap :
        \A i, j \in 1..Len(heap[a].tags) :
            i # j => heap[a].tags[i] # heap[a].tags[j]

\* C26: update sets each field that is supplied to the value supplied and
\* updated_at to the present instant; every field that is not supplied,
\* and always id and created_at, keeps its value; no other object changes.
C26_UpdatePartial ==
    [][last'.op = "update"
       => LET a == last'.ref
              args == last'.args
          IN  /\ \A i \in 1..Len(UpdateOrder) :
                   LET k == UpdateOrder[i]
                   IN  heap'[a][k] = IF k \in DOMAIN args THEN args[k]
                                     ELSE heap[a][k]
              /\ heap'[a].id = heap[a].id
              /\ heap'[a].created_at = heap[a].created_at
              /\ heap'[a].updated_at = clock
              /\ DOMAIN heap' = DOMAIN heap
              /\ \A b \in DOMAIN heap \ {a} : heap'[b] = heap[b]]_vars

\* C26 witness: an update with title "", content, mood 0 and tags has set
\* these four on an entry that keeps the media it had.
C26_Witness ==
    /\ last.op = "update"
    /\ DOMAIN last.args = {"title", "content", "mood", "tags"}
    /\ heap[last.ref].title = ""
    /\ heap[last.ref].mood = 0
    /\ heap[last.ref].content = "tea"
    /\ heap[last.ref].media # <<>>
    /\ heap[last.ref].updated_at > heap[last.ref].created_at

\* the day t lies in the year, in the month when one is given and on the
\* day of the month when one is given
OnDate(t, f) ==
    /\ DateFrom(t, 1).year = f.year
    /\ "month" \in DOMAIN f => DateFrom(t, 1).month = f.month
    /\ "day" \in DOMAIN f => DateFrom(t, 1).day = f.day

\* C27: get_entries_by_date(year, month, day) returns the subsequence of
\* get_all_entries (for the same store and cache) of the entries whose
\* created_at has that year, that month when month is given and that day
\* when day is given.
C27_EntriesByDate ==
    [][last'.op = "get_entries_by_date"
       => \A all \in {get_all_entries(Mgr, clock, last'.ok64)} :
             last'.ret
               = SubSeqAt(all.ret,
                          {i \in 1..Len(all.ret) :
                             OnDate(all.m.heap[all.ret[i]].created_at,
                                    last'.args)},
                          1)]_vars

\* C27 witness: a call with a year and a day and no month returned one of
\* two stored entries of that year, the one created on that day.
C27_Witness ==
    /\ last.op = "get_entries_by_date"
    /\ DOMAIN last.args = {"year", "day"}
    /\ last.args.year = 2024 /\ last.args.day = 1
    /\ Cardinality(DOMAIN db) = 2
    /\ \A k \in DOMAIN db : db[k].dict.created_at[2] \in {61, 62}
    /\ Len(last.ret) = 1
    /\ heap[last.ret[1]].created_at = 62

\* C28 (as claimed): each key of the cache maps to an entry whose id is
\* that key; the entry a get_entry(k) returns is the one cached under k,
\* so that its id is k.
C28_ReadIdentity ==
    \A k \in DOMAIN entries_cache : heap[entries_cache[k]].id = k

\* C29 (as claimed): a change_password, whatever it returns, leaves the
\* set of keys of the store as it was.
C29_RotationKeepsIds ==
    [][last'.op = "change_password" => DOMAIN db' = DOMAIN db]_vars

\* C30 (as claimed): after the settings screen has set the first password,
\* every record the store held is encrypted under the manager's key, and
\* get_entry returns for its key an entry with the fields that were
\* stored, from this manager and from a new one with the same password.
C30_FirstPasswordKeepsEntries ==
    [][last'.op = "set_first_password"
       => \A k \in DOMAIN db :
            LET stored == from_dict(nextUuid, db[k].dict, clock)
                after == get_entry(MgrNext, k, clock', {})
                again == get_entry(SamePasswordManager(MgrNext), k, clock',
                                   {})
            IN  /\ k \in DOMAIN db'
                /\ db'[k].fmt = "b64" /\ db'[k].enc = "aes"
                /\ db'[k].key = key'
                /\ after.ret # Null
                /\ Fields(after.m.heap[after.ret]) = Fields(stored)
                /\ again.ret # Null
                /\ Fields(again.m.heap[again.ret]) = Fields(stored)]_vars

====
